---- MODULE Spec2Model ----
(***************************************************************************)
(* Fee model of scripts/feecalc.py: TransactionMetrics -> ComputationSummary *)
(*                                                                         *)
(* Python's int is arbitrary precision and math.log2, "/" and math.ceil    *)
(* work on IEEE-754 binary64 values.  TLC's integers are 32 bits wide, so  *)
(* a Python int is held in sign-magnitude form with base-2^15 digits (the  *)
(* layout CPython itself uses), and the two floating-point computations    *)
(* are carried out on that representation with binary64 rounding           *)
(* (53 significant bits, round-half-to-even).                              *)
(***************************************************************************)
EXTENDS Integers, Sequences, FiniteSets

(***************************************************************************)
(* Rates, feecalc.py lines 4-7.                                            *)
(***************************************************************************)
COMPUTATION_UNIT_PER_CYCLE_BUCKET == 500
COMPUTATION_UNIT_PER_CREATED_NOTE == 50
COMPUTATION_UNIT_PER_CONSUMED_NOTE == 30
COMPUTATION_UNIT_PER_KILO_BYTE == 15

(***************************************************************************)
(* Python int: [neg, mag], mag a little-endian sequence of digits in       *)
(* 0..Base-1 without leading zero digit; zero is [neg |-> FALSE, mag |-> <<>>]. *)
(***************************************************************************)
Base == 32768

RECURSIVE Pow2Nat(_)
Pow2Nat(e) == IF e = 0 THEN 1 ELSE 2 * Pow2Nat(e - 1)

RECURSIVE BitLenNat(_)
BitLenNat(i) == IF i = 0 THEN 0 ELSE 1 + BitLenNat(i \div 2)

RECURSIVE MagNorm(_)
MagNorm(m) ==
    IF m = <<>> THEN <<>>
    ELSE IF m[Len(m)] = 0 THEN MagNorm(SubSeq(m, 1, Len(m) - 1))
    ELSE m

RECURSIVE MagFromNat(_)
MagFromNat(i) == IF i = 0 THEN <<>> ELSE <<i % Base>> \o MagFromNat(i \div Base)

Digit(m, i) == IF i <= Len(m) THEN m[i] ELSE 0

RECURSIVE MagCmpFrom(_, _, _)
MagCmpFrom(a, b, i) ==
    IF i = 0 THEN 0
    ELSE IF a[i] # b[i] THEN (IF a[i] < b[i] THEN -1 ELSE 1)
    ELSE MagCmpFrom(a, b, i - 1)

MagCmp(a, b) ==
    IF Len(a) # Len(b) THEN (IF Len(a) < Len(b) THEN -1 ELSE 1)
    ELSE MagCmpFrom(a, b, Len(a))

RECURSIVE MagAddFrom(_, _, _, _)
MagAddFrom(a, b, i, carry) ==
    IF i > Len(a) /\ i > Len(b)
    THEN (IF carry = 0 THEN <<>> ELSE <<carry>>)
    ELSE LET s == Digit(a, i) + Digit(b, i) + carry
         IN  <<s % Base>> \o MagAddFrom(a, b, i + 1, s \div Base)

MagAdd(a, b) == MagAddFrom(a, b, 1, 0)

RECURSIVE MagSubFrom(_, _, _, _)
MagSubFrom(a, b, i, borrow) ==
    IF i > Len(a) THEN <<>>
    ELSE LET d == a[i] - Digit(b, i) - borrow
         IN  IF d < 0 THEN <<d + Base>> \o MagSubFrom(a, b, i + 1, 1)
             ELSE <<d>> \o MagSubFrom(a, b, i + 1, 0)

\* a - b for a >= b
MagSub(a, b) == MagNorm(MagSubFrom(a, b, 1, 0))

RECURSIVE MagMulFrom(_, _, _, _)
MagMulFrom(a, c, i, carry) ==
    IF i > Len(a) THEN MagFromNat(carry)
    ELSE LET p == a[i] * c + carry
         IN  <<p % Base>> \o MagMulFrom(a, c, i + 1, p \div Base)

\* a * c for a single-digit c
MagMulSmall(a, c) == IF c = 0 THEN <<>> ELSE MagMulFrom(a, c, 1, 0)

RECURSIVE MagDivFrom(_, _, _, _)
MagDivFrom(a, d, i, rem) ==
    IF i = 0 THEN [q |-> <<>>, r |-> rem]
    ELSE LET cur  == rem * Base + a[i]
             rest == MagDivFrom(a, d, i - 1, cur % d)
         IN  [q |-> rest.q \o <<cur \div d>>, r |-> rest.r]

\* divmod(a, d) for a single-digit d
MagDivSmall(a, d) ==
    LET x == MagDivFrom(a, d, Len(a), 0) IN [q |-> MagNorm(x.q), r |-> x.r]

MagBitLength(m) ==
    IF m = <<>> THEN 0 ELSE 15 * (Len(m) - 1) + BitLenNat(m[Len(m)])

MagPow2(k) ==
    [i \in 1..(k \div 15 + 1) |-> IF i = k \div 15 + 1 THEN Pow2Nat(k % 15) ELSE 0]

Zero == [neg |-> FALSE, mag |-> <<>>]

IntOf(i) == [neg |-> i < 0, mag |-> MagFromNat(IF i < 0 THEN -i ELSE i)]

IntSign(x) == IF x.mag = <<>> THEN 0 ELSE IF x.neg THEN -1 ELSE 1

\* x + y
IntAdd(x, y) ==
    IF x.neg = y.neg THEN [neg |-> x.neg, mag |-> MagAdd(x.mag, y.mag)]
    ELSE LET c == MagCmp(x.mag, y.mag)
         IN  IF c = 0 THEN Zero
             ELSE IF c > 0 THEN [neg |-> x.neg, mag |-> MagSub(x.mag, y.mag)]
             ELSE [neg |-> y.neg, mag |-> MagSub(y.mag, x.mag)]

\* x * c for one of the rate constants c
IntMul(x, c) ==
    LET m == MagMulSmall(x.mag, c)
    IN  [neg |-> x.neg /\ m # <<>>, mag |-> m]

\* x < y, x <= y
IntLess(x, y) ==
    IF x.neg # y.neg THEN x.neg
    ELSE IF x.neg THEN MagCmp(x.mag, y.mag) > 0
    ELSE MagCmp(x.mag, y.mag) < 0

IntLE(x, y) == x = y \/ IntLess(x, y)

(***************************************************************************)
(* binary64 values, as far as math.ceil can tell them apart:               *)
(* [neg, whole, frac] is the value +-(whole + f) with f = 0 when ~frac and *)
(* 0 < f < 1 when frac.                                                    *)
(***************************************************************************)

\* float(n) of a positive int below 2^67: exact up to 53 bits, beyond that
\* rounded to 53 significant bits, half to even.
AsDouble(m) ==
    LET s == MagBitLength(m) - 53
    IN  IF s <= 0 THEN m
        ELSE LET unit  == Pow2Nat(s)
                 low   == m[1] % unit
                 floor == MagSub(m, MagFromNat(low))
                 odd   == (m[1] \div unit) % 2 = 1
             IN  IF 2 * low > unit \/ (2 * low = unit /\ odd)
                 THEN MagAdd(floor, MagFromNat(unit))
                 ELSE floor

\* floor(ln 2 * 2^j) for j <= 11, with ln 2 = 0.693147...
LnTwoScaled(j) ==
    IF j <= 0 THEN 0 ELSE (693147 * Pow2Nat(j)) \div 1000000

\* math.log2(n) for an int n with 0 < n < 2^59: the binary64 nearest to the
\* binary logarithm of x = float(n).  With 2^k <= x < 2^(k+1) and k >= 1 the
\* binary64 values between k and k + 1 are 2^(e-52) apart, e = floor(log2 k).
\* log2(2^k + m) - k ~ m / (2^k ln 2) is below half that spacing, and the
\* result is k exactly, iff m < ln 2 * 2^(k+e-53); likewise the result is
\* k + 1 exactly iff 2^(k+1) - x < ln 2 * 2^(k+e-52).
math_log2(n) ==
    LET x   == AsDouble(n.mag)
        k   == MagBitLength(x) - 1
        j   == k + BitLenNat(k) - 54
        m   == MagSub(x, MagPow2(k))
        gap == MagSub(MagPow2(k + 1), x)
    IN  IF MagCmp(m, MagFromNat(LnTwoScaled(j))) <= 0
        THEN [neg |-> FALSE, whole |-> MagFromNat(k), frac |-> FALSE]
        ELSE IF MagCmp(gap, MagFromNat(LnTwoScaled(j + 1))) <= 0
        THEN [neg |-> FALSE, whole |-> MagFromNat(k + 1), frac |-> FALSE]
        ELSE [neg |-> FALSE, whole |-> MagFromNat(k), frac |-> TRUE]

\* x / d (int / int, d a positive int below 2^10, |x| < d * 2^53): the
\* binary64 nearest to the exact quotient q + r/d, half to even.  With q of
\* L >= 1 bits the binary64 values between q and q + 1 are 2^-(53-L) apart;
\* beyond 10 fractional bits neither q nor q + 1 is the nearest one.
TrueDiv(x, d) ==
    LET dm   == MagDivSmall(x.mag, d)
        E    == 53 - MagBitLength(dm.q)
        two  == Pow2Nat(1 + (IF E > 10 THEN 10 ELSE E))
        down == dm.r * two
        up   == (d - dm.r) * two
        even == E >= 1 \/ Digit(dm.q, 1) % 2 = 0
    IN  IF dm.r = 0
        THEN [neg |-> x.neg, whole |-> dm.q, frac |-> FALSE]
        ELSE IF dm.q = <<>>
        THEN [neg |-> x.neg, whole |-> <<>>, frac |-> TRUE]
        ELSE IF down < d \/ (down = d /\ even)
        THEN [neg |-> x.neg, whole |-> dm.q, frac |-> FALSE]
        ELSE IF up < d \/ (up = d /\ (E >= 1 \/ ~even))
        THEN [neg |-> x.neg, whole |-> MagAdd(dm.q, <<1>>), frac |-> FALSE]
        ELSE [neg |-> x.neg, whole |-> dm.q, frac |-> TRUE]

\* math.ceil(f): the least int not below f.
math_ceil(f) ==
    IF f.neg
    THEN [neg |-> f.whole # <<>>, mag |-> f.whole]
    ELSE [neg |-> FALSE, mag |-> IF f.frac THEN MagAdd(f.whole, <<1>>) ELSE f.whole]

(***************************************************************************)
(* The two dataclasses.                                                    *)
(***************************************************************************)
\* ComputationSummary(cycle_units, notes_consumed_units, notes_created_units, data_units)
ComputationSummary(cu, ncu, ncru, du) ==
    [cycle_units |-> cu, notes_consumed_units |-> ncu,
     notes_created_units |-> ncru, data_units |-> du]

\* TransactionMetrics(num_cycles, num_notes_consumed, num_notes_created,
\*                    created_public_notes_byte_size, public_account_delta_byte_size)
TransactionMetrics(c, nc, ncr, nb, db) ==
    [num_cycles |-> c, num_notes_consumed |-> nc, num_notes_created |-> ncr,
     created_public_notes_byte_size |-> nb, public_account_delta_byte_size |-> db]

\* The outcome of a call: a returned value or a raised exception.
Return(v) == [kind |-> "ok", val |-> v]
Raise(e) == [kind |-> e]

\* Mutant: the sum leaves out data_units.
total_without_data_units(self) ==
    IntAdd(IntAdd(self.cycle_units, self.notes_consumed_units),
           self.notes_created_units)

total_computation_units(self) ==
    IntAdd(IntAdd(IntAdd(self.cycle_units, self.notes_consumed_units),
                  self.notes_created_units),
           self.data_units)

\* Mutant: a cycle count of zero is clamped to bucket 0 instead of raising.
cycle_bucket_clamped(self) ==
    IF IntSign(self.num_cycles) < 0 THEN Raise("ValueError")
    ELSE IF IntSign(self.num_cycles) = 0 THEN Return(Zero)
    ELSE Return(math_ceil(math_log2(self.num_cycles)))

\* Mutant: math.floor in place of math.ceil.
cycle_bucket_floor(self) ==
    IF IntSign(self.num_cycles) <= 0
    THEN Raise("ValueError")
    ELSE Return([neg |-> FALSE, mag |-> math_log2(self.num_cycles).whole])

\* Mutant: int.bit_length() in place of ceil(log2).
cycle_bucket_bit_length(self) ==
    IF IntSign(self.num_cycles) <= 0
    THEN Raise("ValueError")
    ELSE Return(IntOf(MagBitLength(self.num_cycles.mag)))

\* math.log2 raises ValueError ("math domain error") for an int <= 0.
cycle_bucket(self) ==
    IF IntSign(self.num_cycles) <= 0
    THEN Raise("ValueError")
    ELSE Return(math_ceil(math_log2(self.num_cycles)))

kilo_bytes(self) ==
    Return(math_ceil(TrueDiv(IntAdd(self.created_public_notes_byte_size,
                                    self.public_account_delta_byte_size),
                             1000)))

\* Mutant: the consumed-note and created-note rates exchanged.
calculate_computation_units_swapped(self) ==
    LET bucket == cycle_bucket(self)
        kb     == kilo_bytes(self)
    IN  IF bucket.kind # "ok" THEN bucket
        ELSE Return(ComputationSummary(
                 IntMul(bucket.val, COMPUTATION_UNIT_PER_CYCLE_BUCKET),
                 IntMul(self.num_notes_consumed, COMPUTATION_UNIT_PER_CREATED_NOTE),
                 IntMul(self.num_notes_created, COMPUTATION_UNIT_PER_CONSUMED_NOTE),
                 IntMul(kb.val, COMPUTATION_UNIT_PER_KILO_BYTE)))

calculate_computation_units(self) ==
    LET bucket == cycle_bucket(self)
        kb     == kilo_bytes(self)
    IN  IF bucket.kind # "ok" THEN bucket
        ELSE Return(ComputationSummary(
                 IntMul(bucket.val, COMPUTATION_UNIT_PER_CYCLE_BUCKET),
                 IntMul(self.num_notes_consumed, COMPUTATION_UNIT_PER_CONSUMED_NOTE),
                 IntMul(self.num_notes_created, COMPUTATION_UNIT_PER_CREATED_NOTE),
                 IntMul(kb.val, COMPUTATION_UNIT_PER_KILO_BYTE)))

(***************************************************************************)
(* State: two TransactionMetrics instances, for each the caller's summary  *)
(* variable (summary = tx.calculate_computation_units()) and the outcome   *)
(* of the last call made on the instance or its summary.                   *)
(***************************************************************************)
VARIABLES tx, summary, ret

vars == <<tx, summary, ret>>

Inst == {"a", "b"}

NoCall == [op |-> "none", out |-> Raise("none")]

CycleBucketCall(i) ==
    /\ ret' = [ret EXCEPT ![i] = [op |-> "cycle_bucket", out |-> cycle_bucket(tx[i])]]
    /\ UNCHANGED <<tx, summary>>

KiloBytesCall(i) ==
    /\ ret' = [ret EXCEPT ![i] = [op |-> "kilo_bytes", out |-> kilo_bytes(tx[i])]]
    /\ UNCHANGED <<tx, summary>>

\* Mutant: the call resets a field of the metrics it is invoked on.
CalculateCallClobbering(i) ==
    LET out == calculate_computation_units(tx[i])
    IN  /\ ret' = [ret EXCEPT ![i] = [op |-> "calculate_computation_units", out |-> out]]
        /\ summary' = IF out.kind = "ok" THEN [summary EXCEPT ![i] = out.val] ELSE summary
        /\ tx' = [tx EXCEPT ![i].num_notes_created = Zero]

\* summary = tx.calculate_computation_units(): the assignment happens only
\* when the call returns.
CalculateCall(i) ==
    LET out == calculate_computation_units(tx[i])
    IN  /\ ret' = [ret EXCEPT ![i] = [op |-> "calculate_computation_units", out |-> out]]
        /\ summary' = IF out.kind = "ok" THEN [summary EXCEPT ![i] = out.val] ELSE summary
        /\ UNCHANGED tx

TotalCall(i) ==
    /\ ret' = [ret EXCEPT ![i] = [op |-> "total_computation_units",
                                  out |-> Return(total_computation_units(summary[i]))]]
    /\ UNCHANGED <<tx, summary>>

\* summary.<f> = v: ComputationSummary is a plain (not frozen) dataclass.
AssignField(i, f, v) ==
    /\ summary' = [summary EXCEPT ![i][f] = v]
    /\ UNCHANGED <<tx, ret>>

(***************************************************************************)
(* Bounds and sampled inputs.                                              *)
(***************************************************************************)
MaxCycleExp == 54   \* num_cycles is sampled around 2^0 .. 2^MaxCycleExp and halfway between
MaxOff == 2         \* ... at distances -MaxOff .. MaxOff from the power of two
MaxGrow == 2        \* the second instance's num_cycles is up to MaxGrow larger
MaxNotes == 1       \* note counts 0 .. MaxNotes beside the documented 5 and 250
MaxKiloExp == 45    \* byte sizes are sampled around 1000 * 2^0 .. 1000 * 2^MaxKiloExp
MaxAssign == 1      \* values 0 .. MaxAssign are assigned to summary fields
MaxNeg == 2         \* negative inputs -1 .. -MaxNeg beside -1500

Pow2Int(k) == [neg |-> FALSE, mag |-> MagPow2(k)]

CycleSamples ==
    {IntAdd(Pow2Int(k), IntOf(d)) : k \in 0..MaxCycleExp, d \in (-MaxOff)..MaxOff}
    \cup {IntAdd(Pow2Int(k), Pow2Int(k - 1)) : k \in 1..MaxCycleExp}

NoteSamples == {IntOf(n) : n \in (0..MaxNotes) \cup {5, 250}}

ByteSamples ==
    {IntOf(n) : n \in (0..MaxOff) \cup {500}}
    \cup {IntAdd(IntMul(Pow2Int(k), 1000), IntOf(d)) :
              k \in 0..MaxKiloExp, d \in (-MaxOff)..MaxOff}

DeltaSamples == {IntOf(n) : n \in {0, 1, 500, 1000}}

NegSamples == {IntOf(-n) : n \in (1..MaxNeg) \cup {1500}}

Default == TransactionMetrics(Zero, Zero, Zero, Zero, Zero)

NoSummary == ComputationSummary(Zero, Zero, Zero, Zero)

Fresh ==
    /\ summary = [i \in Inst |-> NoSummary]
    /\ ret = [i \in Inst |-> NoCall]

Next ==
    \E i \in Inst :
        \/ CycleBucketCall(i)
        \/ KiloBytesCall(i)
        \/ CalculateCall(i)
        \/ TotalCall(i)

\* The sample matrix of the script (lines 98-127), widened: any sampled
\* cycle count, note counts and byte sizes; the second instance is the first
\* with one of its note counts doubled, or the first row of the matrix.
Init ==
    /\ \E c \in {Pow2Int(0), Pow2Int(16), Pow2Int(20)},
          nc \in NoteSamples, ncr \in NoteSamples,
          nb \in {IntOf(0), IntOf(1), IntOf(325000)}, db \in {IntOf(0), IntOf(1000)} :
          \E t2 \in {TransactionMetrics(c, IntMul(nc, 2), ncr, nb, db),
                     TransactionMetrics(c, nc, IntMul(ncr, 2), nb, db),
                     TransactionMetrics(Pow2Int(16), IntOf(5), IntOf(5), Zero, Zero)} :
              tx = [a |-> TransactionMetrics(c, nc, ncr, nb, db), b |-> t2]
    /\ Fresh

Spec == Init /\ [][Next]_vars

\* cycle_bucket over the sampled cycle counts; the second instance has the
\* same or a slightly larger cycle count.
InitBucket ==
    /\ \E c \in CycleSamples, g \in 0..MaxGrow :
          tx = [a |-> TransactionMetrics(c, Zero, Zero, Zero, Zero),
                b |-> TransactionMetrics(IntAdd(c, IntOf(g)), Zero, Zero, Zero, Zero)]
    /\ Fresh

NextBucket ==
    \E i \in Inst :
        \/ CycleBucketCall(i)
        \/ CalculateCall(i)

SpecBucket == InitBucket /\ [][NextBucket]_vars

\* kilo_bytes over the sampled byte sizes; the second instance holds the
\* same two sizes exchanged.
InitKilo ==
    /\ \E nb \in ByteSamples, db \in DeltaSamples :
          tx = [a |-> TransactionMetrics(Pow2Int(10), Zero, Zero, nb, db),
                b |-> TransactionMetrics(Pow2Int(10), Zero, Zero, db, nb)]
    /\ Fresh

NextKilo ==
    \E i \in Inst :
        \/ KiloBytesCall(i)
        \/ CalculateCall(i)

SpecKilo == InitKilo /\ [][NextKilo]_vars

\* A summary whose fields are reassigned between calls of
\* total_computation_units.
InitSummary ==
    /\ \E nc \in NoteSamples :
          tx = [a |-> TransactionMetrics(Pow2Int(16), nc, IntOf(5), IntOf(1001), Zero),
                b |-> Default]
    /\ Fresh

NextSummary ==
    \/ CalculateCall("a")
    \/ TotalCall("a")
    \/ \E f \in {"cycle_units", "notes_consumed_units", "notes_created_units", "data_units"},
          v \in 0..MaxAssign : AssignField("a", f, IntOf(v))

SpecSummary == InitSummary /\ [][NextSummary]_vars

\* Metrics with one negative field (the others valid).
InitInvalid ==
    /\ \E v \in NegSamples, f \in DOMAIN Default :
          tx = [a |-> [TransactionMetrics(Pow2Int(10), IntOf(1), IntOf(1), IntOf(1000), Zero)
                          EXCEPT ![f] = v],
                b |-> TransactionMetrics(Pow2Int(10), IntOf(1), IntOf(1), IntOf(1000), Zero)]
    /\ Fresh

SpecInvalid == InitInvalid /\ [][Next]_vars

(***************************************************************************)
(* Properties.  Values are compared as TLA+ integers where they are small  *)
(* (IntVal) and as Python ints (IntLess, IntLE) where they are not.        *)
(***************************************************************************)
RECURSIVE MagVal(_)
MagVal(m) == IF m = <<>> THEN 0 ELSE m[1] + Base * MagVal(Tail(m))

IntVal(x) == IF x.neg THEN -MagVal(x.mag) ELSE MagVal(x.mag)

Called(i, op) == ret[i].op = op

Returned(i, op) == ret[i].op = op /\ ret[i].out.kind = "ok"

Valid(t) ==
    /\ IntSign(t.num_cycles) = 1
    /\ IntSign(t.num_notes_consumed) >= 0
    /\ IntSign(t.num_notes_created) >= 0
    /\ IntSign(t.created_public_notes_byte_size) >= 0
    /\ IntSign(t.public_account_delta_byte_size) >= 0

\* C1: for metrics with num_cycles >= 1 and the other fields non-negative,
\* calculate_computation_units returns a summary with
\* cycle_units = cycle_bucket() * 500, notes_consumed_units = consumed * 30,
\* notes_created_units = created * 50, data_units = kilo_bytes() * 15; and of
\* two such metrics that differ in one note count being doubled, the
\* corresponding unit field of the second is twice that of the first.
C1_Breakdown ==
    /\ \A i \in Inst :
          (Called(i, "calculate_computation_units") /\ Valid(tx[i])) =>
              /\ ret[i].out.kind = "ok"
              /\ IntVal(ret[i].out.val.cycle_units)
                     = IntVal(cycle_bucket(tx[i]).val) * 500
              /\ IntVal(ret[i].out.val.notes_consumed_units)
                     = IntVal(tx[i].num_notes_consumed) * 30
              /\ IntVal(ret[i].out.val.notes_created_units)
                     = IntVal(tx[i].num_notes_created) * 50
              /\ IntVal(ret[i].out.val.data_units)
                     = IntVal(kilo_bytes(tx[i]).val) * 15
    /\ (Returned("a", "calculate_computation_units")
            /\ Returned("b", "calculate_computation_units")) =>
          /\ IntVal(tx["b"].num_notes_consumed) = 2 * IntVal(tx["a"].num_notes_consumed)
                => IntVal(ret["b"].out.val.notes_consumed_units)
                       = 2 * IntVal(ret["a"].out.val.notes_consumed_units)
          /\ IntVal(tx["b"].num_notes_created) = 2 * IntVal(tx["a"].num_notes_created)
                => IntVal(ret["b"].out.val.notes_created_units)
                       = 2 * IntVal(ret["a"].out.val.notes_created_units)

\* Both instances computed; the second has 10 consumed notes where the first
\* has 5 (300 units against 150), and a created-note charge differs from
\* what the consumed-note rate would give.
C1_Witness ==
    /\ Returned("a", "calculate_computation_units")
    /\ Returned("b", "calculate_computation_units")
    /\ Valid(tx["a"]) /\ Valid(tx["b"])
    /\ IntVal(tx["a"].num_notes_consumed) = 5
    /\ IntVal(tx["b"].num_notes_consumed) = 10
    /\ IntVal(tx["a"].num_notes_created) = 1
    /\ IntVal(ret["a"].out.val.notes_consumed_units) = 150
    /\ IntVal(ret["b"].out.val.notes_consumed_units) = 300
    /\ IntVal(ret["a"].out.val.notes_created_units) = 50
    /\ IntVal(ret["a"].out.val.data_units) > 0
    /\ IntVal(ret["a"].out.val.cycle_units) > 0

SumOfFields(sm) ==
    IntVal(sm.cycle_units) + IntVal(sm.notes_consumed_units)
        + IntVal(sm.notes_created_units) + IntVal(sm.data_units)

\* C2: every call of total_computation_units returns the sum of the four
\* fields the summary holds at the time of the call, whether they were set
\* by calculate_computation_units or reassigned since.
C2_TotalIsSum ==
    [][(ret'["a"] # ret["a"] /\ ret'["a"].op = "total_computation_units") =>
           /\ ret'["a"].out.kind = "ok"
           /\ IntVal(ret'["a"].out.val) = SumOfFields(summary["a"])]_vars

\* A total returned for a summary that was computed (8000 cycle units kept)
\* and then had its data_units reassigned to 1 (the computed value is 30).
C2_Witness ==
    /\ Returned("a", "total_computation_units")
    /\ IntVal(summary["a"].cycle_units) = 8000
    /\ IntVal(summary["a"].notes_created_units) = 250
    /\ IntVal(summary["a"].data_units) = 1
    /\ IntVal(ret["a"].out.val) = SumOfFields(summary["a"])
    /\ IntVal(ret["a"].out.val) = 8251 + IntVal(summary["a"].notes_consumed_units)

\* The least k >= 0 with 2^k >= n, for n >= 1.
CeilLog2(n) ==
    CHOOSE k \in 0..(MaxCycleExp + 2) :
        /\ IntLE(n, Pow2Int(k))
        /\ k = 0 \/ IntLess(Pow2Int(k - 1), n)

\* C3: for every num_cycles >= 1, cycle_bucket returns the least k >= 0 with
\* 2^k >= num_cycles (k for 2^k, k + 1 for 2^k + 1; 0 for 1).
C3_CeilLog2 ==
    \A i \in Inst :
        (Called(i, "cycle_bucket") /\ IntSign(tx[i].num_cycles) = 1) =>
            /\ ret[i].out.kind = "ok"
            /\ IntVal(ret[i].out.val) = CeilLog2(tx[i].num_cycles)

\* C4: kilo_bytes returns the ceiling of the combined byte size over 1000:
\* the k with 1000 * (k - 1) < created_public_notes_byte_size +
\* public_account_delta_byte_size <= 1000 * k.
C4_CeilKilo ==
    \A i \in Inst :
        Called(i, "kilo_bytes") =>
            LET size == IntAdd(tx[i].created_public_notes_byte_size,
                               tx[i].public_account_delta_byte_size)
                k    == ret[i].out.val
            IN  /\ ret[i].out.kind = "ok"
                /\ IntLE(size, IntMul(k, 1000))
                /\ IntLess(IntMul(IntAdd(k, IntOf(-1)), 1000), size)

\* C5: with num_cycles = 0, cycle_bucket and calculate_computation_units end
\* in the invalid-input error (Python's ValueError) and no summary is
\* returned: the caller's summary stays as it was.
C5_ZeroCyclesRejected ==
    \A i \in Inst :
        IntSign(tx[i].num_cycles) = 0 =>
            /\ (Called(i, "cycle_bucket") \/ Called(i, "calculate_computation_units"))
                   => ret[i].out = Raise("ValueError")
            /\ summary[i] = NoSummary

\* Both calls made on metrics with num_cycles = 0, both ended in ValueError.
C5_Witness ==
    /\ IntSign(tx["a"].num_cycles) = 0
    /\ IntSign(tx["b"].num_cycles) = 0
    /\ Called("a", "cycle_bucket") /\ ret["a"].out.kind = "ValueError"
    /\ Called("b", "calculate_computation_units") /\ ret["b"].out.kind = "ValueError"

AnyNegative(t) ==
    \E f \in DOMAIN t : IntSign(t[f]) = -1

\* C6: with any field of the metrics negative, calculate_computation_units
\* ends in the invalid-input error; no summary with a negative unit field or
\* a negative total is returned.
C6_NegativeRejected ==
    \A i \in Inst :
        /\ (Called(i, "calculate_computation_units") /\ AnyNegative(tx[i]))
               => ret[i].out = Raise("ValueError")
        /\ \A f \in DOMAIN summary[i] : IntSign(summary[i][f]) >= 0
        /\ Called(i, "total_computation_units") => IntSign(ret[i].out.val) >= 0

\* n and m lie between the same two consecutive powers of two:
\* 2^(k-1) < n, m <= 2^k for some k.
SameBucketRange(n, m) ==
    \E k \in 0..(MaxCycleExp + 2) :
        /\ IntLE(n, Pow2Int(k)) /\ IntLE(m, Pow2Int(k))
        /\ k = 0 \/ (IntLess(Pow2Int(k - 1), n) /\ IntLess(Pow2Int(k - 1), m))

\* C7: for 1 <= a <= b, cycle_bucket(a) <= cycle_bucket(b) and
\* cycle_units(a) <= cycle_units(b); and a and b between the same two
\* consecutive powers of two (2^(k-1) < a, b <= 2^k) have the same bucket.
C7_MonotoneBuckets ==
    (IntSign(tx["a"].num_cycles) = 1 /\ IntLE(tx["a"].num_cycles, tx["b"].num_cycles)) =>
        /\ (Returned("a", "cycle_bucket") /\ Returned("b", "cycle_bucket")) =>
              /\ IntVal(ret["a"].out.val) <= IntVal(ret["b"].out.val)
              /\ SameBucketRange(tx["a"].num_cycles, tx["b"].num_cycles)
                     => ret["a"].out.val = ret["b"].out.val
        /\ (Returned("a", "calculate_computation_units")
               /\ Returned("b", "calculate_computation_units")) =>
              IntVal(ret["a"].out.val.cycle_units) <= IntVal(ret["b"].out.val.cycle_units)

\* The monotone part of C7 alone.
C7_MonotoneOnly ==
    (IntSign(tx["a"].num_cycles) = 1 /\ IntLE(tx["a"].num_cycles, tx["b"].num_cycles)
        /\ Returned("a", "cycle_bucket") /\ Returned("b", "cycle_bucket"))
    => IntVal(ret["a"].out.val) <= IntVal(ret["b"].out.val)

InDomain(n) == IntLE(Pow2Int(10), n) /\ IntLE(n, Pow2Int(29))

\* C8: for num_cycles in 2^10 .. 2^29, cycle_bucket is in 10 .. 29, is 10
\* only for 2^10 and is 29 for 2^29; cycle_units is in 5000 .. 14500.
C8_DomainRange ==
    \A i \in Inst :
        InDomain(tx[i].num_cycles) =>
            /\ Called(i, "cycle_bucket") =>
                  /\ ret[i].out.kind = "ok"
                  /\ IntVal(ret[i].out.val) \in 10..29
                  /\ IntVal(ret[i].out.val) = 10 => tx[i].num_cycles = Pow2Int(10)
                  /\ tx[i].num_cycles = Pow2Int(29) => IntVal(ret[i].out.val) = 29
            /\ Called(i, "calculate_computation_units") =>
                  /\ ret[i].out.kind = "ok"
                  /\ IntVal(ret[i].out.val.cycle_units) \in 5000..14500

\* Both ends of the domain have been bucketed: 2^10 + 1 (bucket 11, 5500
\* units) on one instance's neighbour and 2^29 on the other side.
C8_Witness ==
    /\ tx["a"].num_cycles = Pow2Int(10)
    /\ tx["b"].num_cycles = IntAdd(Pow2Int(10), IntOf(1))
    /\ Returned("a", "cycle_bucket") /\ IntVal(ret["a"].out.val) = 10
    /\ Returned("b", "calculate_computation_units")
    /\ IntVal(ret["b"].out.val.cycle_units) = 5500

ScenarioA == TransactionMetrics(IntOf(65536), IntOf(5), IntOf(5), IntOf(0), IntOf(0))

ScenarioB == TransactionMetrics(IntOf(1048576), IntOf(250), IntOf(250), IntOf(325000), IntOf(0))

Breakdown(i, bucket, cu, ncu, ncru, kb, du, total) ==
    /\ Called(i, "cycle_bucket") =>
          ret[i].out.kind = "ok" /\ IntVal(ret[i].out.val) = bucket
    /\ Called(i, "kilo_bytes") =>
          ret[i].out.kind = "ok" /\ IntVal(ret[i].out.val) = kb
    /\ Called(i, "calculate_computation_units") =>
          /\ ret[i].out.kind = "ok"
          /\ IntVal(ret[i].out.val.cycle_units) = cu
          /\ IntVal(ret[i].out.val.notes_consumed_units) = ncu
          /\ IntVal(ret[i].out.val.notes_created_units) = ncru
          /\ IntVal(ret[i].out.val.data_units) = du
    /\ (Called(i, "total_computation_units") /\ summary[i] # NoSummary) =>
          ret[i].out.kind = "ok" /\ IntVal(ret[i].out.val) = total

\* C9: the two documented samples.  A = (65536, 5, 5, 0, 0): bucket 16, units
\* 8000, 150, 250, kilobytes 0, data units 0, total 8400.
\* B = (1048576, 250, 250, 325000, 0): bucket 20, units 10000, 7500, 12500,
\* kilobytes 325, data units 4875, total 34875.
C9_Scenarios ==
    \A i \in Inst :
        /\ tx[i] = ScenarioA => Breakdown(i, 16, 8000, 150, 250, 0, 0, 8400)
        /\ tx[i] = ScenarioB => Breakdown(i, 20, 10000, 7500, 12500, 325, 4875, 34875)

\* Scenario B computed and totalled on one instance, scenario A computed on
\* the other.
C9_Witness ==
    /\ tx["a"] = ScenarioB /\ tx["b"] = ScenarioA
    /\ Returned("a", "total_computation_units") /\ IntVal(ret["a"].out.val) = 34875
    /\ IntVal(summary["a"].data_units) = 4875
    /\ Returned("b", "calculate_computation_units")
    /\ IntVal(ret["b"].out.val.cycle_units) = 8000

\* C10: no call changes a field of any TransactionMetrics; a summary changes
\* only by being replaced with the value calculate_computation_units returns
\* for its own instance; a call on one instance leaves the other instance's
\* summary and outcome alone; calling the same method again on unchanged
\* objects gives the same outcome; and two instances with equal metrics get
\* equal summaries.
C10_Pure ==
    [][/\ tx' = tx
       /\ \A i \in Inst :
             /\ summary'[i] # summary[i] =>
                   /\ ret'[i].op = "calculate_computation_units"
                   /\ ret'[i].out = Return(summary'[i])
             /\ (ret'[i] # ret[i] \/ summary'[i] # summary[i]) =>
                   \A j \in Inst \ {i} : ret'[j] = ret[j] /\ summary'[j] = summary[j]
             /\ ret'[i].op = ret[i].op => ret'[i] = ret[i]
             /\ \A j \in Inst :
                   (/\ ret'[i].op = "calculate_computation_units"
                    /\ ret'[j].op = "calculate_computation_units"
                    /\ tx'[i] = tx'[j]) => ret'[i].out = ret'[j].out]_vars

\* Two instances with equal metrics (250 created notes, no consumed ones),
\* both computed, with equal summaries.
C10_Witness ==
    /\ tx["a"] = tx["b"]
    /\ IntVal(tx["a"].num_notes_created) = 250
    /\ Returned("a", "calculate_computation_units")
    /\ Returned("b", "calculate_computation_units")
    /\ ret["a"].out = ret["b"].out
    /\ summary["a"] = summary["b"]
    /\ IntVal(summary["a"].notes_created_units) = 12500

====
